---------------------------- MODULE Spec2Model ----------------------------
(***************************************************************************)
(* Model of packages/hurl/src/http/request_spec_curl_args.rs: the          *)
(* translation of a RequestSpec into curl command line tokens, with its    *)
(* shell string encoder and its URL percent encoder.                       *)
(*                                                                         *)
(* A string is the sequence of its UTF-8 bytes (integers 0..255); a token  *)
(* is a string; the output of curl_args is a sequence of tokens.  The      *)
(* characters the code tests for are all ASCII, so working byte by byte    *)
(* agrees with Rust's char by char loops.                                  *)
(***************************************************************************)
EXTENDS Integers, Sequences, FiniteSets, TLC

VARIABLES
    request,        \* the RequestSpec handed to curl_args
    context_dir,    \* the ContextDir handed to curl_args
    arguments,      \* the Vec<String> curl_args returned
    input,          \* the &str handed to an encoder
    param_name,     \* the name of the Param handed to curl_arg_escape
    encoded,        \* the String the encoder returned
    pc              \* which function has run

vars == <<request, context_dir, arguments, input, param_name, encoded, pc>>

(***************************************************************************)
(* Bounds of the model.                                                    *)
(***************************************************************************)
\* headers + query + form + multipart entries of one request
MaxEntries == 3
\* bytes of a string handed to an encoder
MaxStrLen == 3

(***************************************************************************)
(* Characters.                                                             *)
(***************************************************************************)
NL == 10
TAB == 9
SQ == 39
BS == 92
DOLLAR == 36
PERCENT == 37
AMP == 38
COLON == 58
EQ == 61
QMARK == 63
AT == 64
SPACE == 32
LOWER_N == 110
LOWER_T == 116
LOWER_X == 120

(***************************************************************************)
(* String literals of the source.                                          *)
(***************************************************************************)
\* "GET"
GET ==
    <<71, 69, 84>>
\* "HEAD"
HEAD ==
    <<72, 69, 65, 68>>
\* "POST"
POST ==
    <<80, 79, 83, 84>>
\* "--request"
ARG_REQUEST ==
    <<45, 45, 114, 101, 113, 117, 101, 115, 116>>
\* "--head"
ARG_HEAD ==
    <<45, 45, 104, 101, 97, 100>>
\* "--header"
ARG_HEADER ==
    <<45, 45, 104, 101, 97, 100, 101, 114>>
\* "--data"
ARG_DATA ==
    <<45, 45, 100, 97, 116, 97>>
\* "--data-binary"
ARG_DATA_BINARY ==
    <<45, 45, 100, 97, 116, 97, 45, 98, 105, 110, 97, 114, 121>>
\* "--form"
ARG_FORM ==
    <<45, 45, 102, 111, 114, 109>>
\* "Content-Type"
CONTENT_TYPE ==
    <<67, 111, 110, 116, 101, 110, 116, 45, 84, 121, 112, 101>>
\* "application/x-www-form-urlencoded"
FORM_URLENCODED ==
    <<97, 112, 112, 108, 105, 99, 97, 116, 105, 111, 110, 47, 120, 45, 119,
      119, 119, 45, 102, 111, 114, 109, 45, 117, 114, 108, 101, 110, 99, 111,
      100, 101, 100>>
\* "multipart/form-data"
MULTIPART_FORM_DATA ==
    <<109, 117, 108, 116, 105, 112, 97, 114, 116, 47, 102, 111, 114, 109, 45,
      100, 97, 116, 97>>
\* "application/octet-stream"
OCTET_STREAM ==
    <<97, 112, 112, 108, 105, 99, 97, 116, 105, 111, 110, 47, 111, 99, 116,
      101, 116, 45, 115, 116, 114, 101, 97, 109>>
\* ";type="
TYPE_EQ ==
    <<59, 116, 121, 112, 101, 61>>

(***************************************************************************)
(* Sequence helpers.                                                       *)
(***************************************************************************)
\* the concatenation of the sequences f(xs[1]), f(xs[2]), ...
RECURSIVE FlatMap(_, _)
FlatMap(f(_), xs) ==
    IF xs = <<>> THEN <<>> ELSE f(Head(xs)) \o FlatMap(f, Tail(xs))

\* the sequences of length at most n over S
SeqsUpTo(S, n) ==
    UNION {[1..k -> S] : k \in 0..n}

\* str.contains(c)
Contains(s, c) ==
    \E i \in 1..Len(s) : s[i] = c

(***************************************************************************)
(* encode_byte, encode_bytes                                               *)
(***************************************************************************)
\* one digit of {:x}
LowerHexDigit(d) ==
    IF d < 10 THEN 48 + d ELSE 87 + d

\* one digit of the percent_encoding crate's table ("%00" .. "%FF")
UpperHexDigit(d) ==
    IF d < 10 THEN 48 + d ELSE 55 + d

encode_byte(b) ==
    <<BS, LOWER_X, LowerHexDigit(b \div 16), LowerHexDigit(b % 16)>>

encode_bytes(bytes) ==
    FlatMap(encode_byte, bytes)

(***************************************************************************)
(* escape_url: percent_encode(s.as_bytes(), NON_ALPHANUMERIC)              *)
(***************************************************************************)
\* u8::is_ascii_alphanumeric, the complement of NON_ALPHANUMERIC within ASCII
IsAsciiAlphanumeric(b) ==
    \/ (48 <= b /\ b <= 57)
    \/ (65 <= b /\ b <= 90)
    \/ (97 <= b /\ b <= 122)

percent_encode_byte(b) ==
    <<PERCENT, UpperHexDigit(b \div 16), UpperHexDigit(b % 16)>>

escape_url_byte_lower(b) ==
    IF IsAsciiAlphanumeric(b)
    THEN <<b>>
    ELSE <<PERCENT, LowerHexDigit(b \div 16), LowerHexDigit(b % 16)>>

escape_url_byte(b) ==
    IF IsAsciiAlphanumeric(b) THEN <<b>> ELSE percent_encode_byte(b)

escape_url(s) ==
    FlatMap(escape_url_byte, s)

(***************************************************************************)
(* encode_shell_string, escape_mode, escape_string                         *)
(***************************************************************************)
escape_mode(s) ==
    \E i \in 1..Len(s) : s[i] = NL \/ s[i] = TAB \/ s[i] = SQ

\* escaped_sequences.get(&c): the table of escape_string
escape_char_no_backslash(c) ==
    CASE c = NL -> <<BS, LOWER_N>>
      [] c = TAB -> <<BS, LOWER_T>>
      [] c = SQ -> <<BS, SQ>>
      [] OTHER -> <<c>>

escape_char(c) ==
    CASE c = NL -> <<BS, LOWER_N>>
      [] c = TAB -> <<BS, LOWER_T>>
      [] c = SQ -> <<BS, SQ>>
      [] c = BS -> <<BS, BS>>
      [] OTHER -> <<c>>

escape_string(s) ==
    FlatMap(escape_char, s)

encode_shell_string(s) ==
    IF escape_mode(s)
    THEN <<DOLLAR, SQ>> \o escape_string(s) \o <<SQ>>
    ELSE <<SQ>> \o s \o <<SQ>>

(***************************************************************************)
(* Param::curl_arg_escape, Param::curl_arg                                 *)
(***************************************************************************)
param_curl_arg_escape(param) ==
    param.name \o <<EQ>> \o escape_url(param.value)

param_curl_arg(param) ==
    param.name \o <<EQ>> \o param.value

(***************************************************************************)
(* Collaborators of curl_args defined outside this file.                   *)
(***************************************************************************)
\* str::to_lowercase, on the ASCII letters
to_lowercase(s) ==
    [i \in 1..Len(s) |-> IF 65 <= s[i] /\ s[i] <= 90 THEN s[i] + 32 ELSE s[i]]

\* HeaderVec::contains_key with exact name comparison
contains_key_exact(headers, name) ==
    \E i \in 1..Len(headers) : headers[i].name = name

\* HeaderVec::contains_key: header names are compared ignoring ASCII case.
\* tests::requests_curl_args expects no inferred pair for json_request(),
\* whose only header is "content-type" and whose implicit content type is
\* "application/json".
contains_key(headers, name) ==
    \E i \in 1..Len(headers) :
        to_lowercase(headers[i].name) = to_lowercase(name)

\* Body::bytes: the content of the body, whatever its variant
bytes(body) ==
    body.data

\* ContextDir::resolved_path: the file name under the context's root
resolved_path(ctx, filename) ==
    ctx \o filename

\* Url::raw
raw(url) ==
    url

(***************************************************************************)
(* Method::curl_args                                                       *)
(***************************************************************************)
method_curl_args_get_always(method, data) ==
    CASE method = HEAD -> <<ARG_HEAD>>
      [] method = POST -> IF data THEN <<>> ELSE <<ARG_REQUEST, POST>>
      [] OTHER -> <<ARG_REQUEST, method>>

method_curl_args_post_always(method, data) ==
    CASE method = GET -> IF data THEN <<ARG_REQUEST, GET>> ELSE <<>>
      [] method = HEAD -> <<ARG_HEAD>>
      [] OTHER -> <<ARG_REQUEST, method>>

method_curl_args(method, data) ==
    CASE method = GET -> IF data THEN <<ARG_REQUEST, GET>> ELSE <<>>
      [] method = HEAD -> <<ARG_HEAD>>
      [] method = POST -> IF data THEN <<>> ELSE <<ARG_REQUEST, POST>>
      [] OTHER -> <<ARG_REQUEST, method>>

(***************************************************************************)
(* Header::curl_args                                                       *)
(***************************************************************************)
header_curl_args(header) ==
    <<ARG_HEADER,
      encode_shell_string(header.name \o <<COLON, SPACE>> \o header.value)>>

(***************************************************************************)
(* MultipartParam::curl_arg                                                *)
(***************************************************************************)
multipart_curl_arg(param, ctx) ==
    IF param.kind = "Param"
    THEN param_curl_arg(param)
    ELSE LET path == resolved_path(ctx, param.filename)
             value == <<AT>> \o path \o TYPE_EQ \o param.content_type
         IN  param.name \o <<EQ>> \o value

(***************************************************************************)
(* Body::curl_arg                                                          *)
(***************************************************************************)
body_curl_arg(body, ctx) ==
    CASE body.kind = "Text" -> encode_shell_string(body.data)
      [] body.kind = "Binary" ->
            <<DOLLAR, SQ>> \o encode_bytes(body.data) \o <<SQ>>
      [] body.kind = "File" ->
            <<SQ, AT>> \o resolved_path(ctx, body.filename) \o <<SQ>>

(***************************************************************************)
(* RequestSpec::curl_args, step by step                                    *)
(***************************************************************************)
\* format!("'{}'", s)
Quoted(s) ==
    <<SQ>> \o s \o <<SQ>>

\* Vec<String>::join(sep)
RECURSIVE join(_, _)
join(parts, sep) ==
    IF parts = <<>> THEN <<>>
    ELSE IF Len(parts) = 1 THEN Head(parts)
    ELSE Head(parts) \o sep \o join(Tail(parts), sep)

\* let data = ...
has_payload(req) ==
    \/ req.multipart /= <<>>
    \/ req.form /= <<>>
    \/ bytes(req.body) /= <<>>

method_args(req) ==
    method_curl_args(req.method, has_payload(req))

header_args(req) ==
    FlatMap(header_curl_args, req.headers)

has_explicit_content_type_exact(req) ==
    contains_key_exact(req.headers, CONTENT_TYPE)

has_explicit_content_type(req) ==
    contains_key(req.headers, CONTENT_TYPE)

\* the body of `if !has_explicit_content_type { ... }` with Binary treated
\* like Text
inferred_content_type_binary_bare(req) ==
    IF req.implicit_content_type.some
    THEN LET content_type == req.implicit_content_type.value
         IN  IF content_type /= FORM_URLENCODED
                /\ content_type /= MULTIPART_FORM_DATA
             THEN <<ARG_HEADER,
                    Quoted(CONTENT_TYPE \o <<COLON, SPACE>> \o content_type)>>
             ELSE <<>>
    ELSE IF bytes(req.body) /= <<>>
    THEN <<ARG_HEADER, Quoted(CONTENT_TYPE \o <<COLON>>)>>
    ELSE <<>>

\* the body of `if !has_explicit_content_type { ... }`
inferred_content_type(req) ==
    IF req.implicit_content_type.some
    THEN LET content_type == req.implicit_content_type.value
         IN  IF content_type /= FORM_URLENCODED
                /\ content_type /= MULTIPART_FORM_DATA
             THEN <<ARG_HEADER,
                    Quoted(CONTENT_TYPE \o <<COLON, SPACE>> \o content_type)>>
             ELSE <<>>
    ELSE IF bytes(req.body) /= <<>>
    THEN CASE req.body.kind = "Text" ->
                <<ARG_HEADER, Quoted(CONTENT_TYPE \o <<COLON>>)>>
           [] req.body.kind = "Binary" ->
                <<ARG_HEADER,
                  Quoted(CONTENT_TYPE \o <<COLON, SPACE>> \o OCTET_STREAM)>>
           [] req.body.kind = "File" ->
                <<ARG_HEADER, Quoted(CONTENT_TYPE \o <<COLON>>)>>
    ELSE <<>>

content_type_args(req) ==
    IF ~has_explicit_content_type(req)
    THEN inferred_content_type(req)
    ELSE <<>>

form_args(req) ==
    FlatMap(LAMBDA param : <<ARG_DATA, Quoted(param_curl_arg_escape(param))>>,
            req.form)

multipart_args(req, ctx) ==
    FlatMap(LAMBDA param : <<ARG_FORM, Quoted(multipart_curl_arg(param, ctx))>>,
            req.multipart)

body_args_data_only(req, ctx) ==
    IF bytes(req.body) /= <<>>
    THEN <<ARG_DATA, body_curl_arg(req.body, ctx)>>
    ELSE <<>>

body_args(req, ctx) ==
    IF bytes(req.body) /= <<>>
    THEN LET param == IF req.body.kind = "File"
                      THEN ARG_DATA_BINARY
                      ELSE ARG_DATA
         IN  <<param, body_curl_arg(req.body, ctx)>>
    ELSE <<>>

\* let querystring = ...
querystring_of(req) ==
    IF req.querystring = <<>>
    THEN <<>>
    ELSE LET params == [i \in 1..Len(req.querystring) |->
                            param_curl_arg_escape(req.querystring[i])]
         IN  join(params, <<AMP>>)

final_url_always_qmark(req) ==
    LET querystring == querystring_of(req)
    IN  IF querystring = <<>>
        THEN raw(req.url)
        ELSE raw(req.url) \o <<QMARK>> \o querystring

\* let url = ...
final_url(req) ==
    LET querystring == querystring_of(req)
    IN  IF querystring = <<>>
        THEN raw(req.url)
        ELSE IF Contains(raw(req.url), QMARK)
        THEN raw(req.url) \o <<AMP>> \o querystring
        ELSE raw(req.url) \o <<QMARK>> \o querystring

curl_args_multipart_first(req, ctx) ==
    method_args(req)
        \o header_args(req)
        \o content_type_args(req)
        \o multipart_args(req, ctx)
        \o form_args(req)
        \o body_args(req, ctx)
        \o <<Quoted(final_url(req))>>

curl_args(req, ctx) ==
    method_args(req)
        \o header_args(req)
        \o content_type_args(req)
        \o form_args(req)
        \o multipart_args(req, ctx)
        \o body_args(req, ctx)
        \o <<Quoted(final_url(req))>>

(***************************************************************************)
(* curl_args applied to bounded requests.                                  *)
(***************************************************************************)
\* "PUT"
PUT ==
    <<80, 85, 84>>
\* "application/json"
APPLICATION_JSON ==
    <<97, 112, 112, 108, 105, 99, 97, 116, 105, 111, 110, 47, 106, 115, 111,
      110>>
\* "content-type"
LOWER_CONTENT_TYPE ==
    <<99, 111, 110, 116, 101, 110, 116, 45, 116, 121, 112, 101>>
\* "t/p"
T_P ==
    <<116, 47, 112>>
\* "it's"
ITS ==
    <<105, 116, 39, 115>>
\* "f.bin"
F_BIN ==
    <<102, 46, 98, 105, 110>>

Methods ==
    {GET, HEAD, POST, PUT}

\* "h/p", "h/p?x=1"
Urls ==
    {<<104, 47, 112>>, <<104, 47, 112, 63, 120, 61, 49>>}

\* Content-Type: t/p, content-type: t/p, Foo: it's
HeaderPool ==
    {[name |-> CONTENT_TYPE, value |-> T_P],
     [name |-> LOWER_CONTENT_TYPE, value |-> T_P],
     [name |-> <<70, 111, 111>>, value |-> ITS]}

\* q=a b, p=v1
QueryPool ==
    {[name |-> <<113>>, value |-> <<97, 32, 98>>],
     [name |-> <<112>>, value |-> <<118, 49>>]}

\* k=a=b, p=v1
FormPool ==
    {[name |-> <<107>>, value |-> <<97, 61, 98>>],
     [name |-> <<112>>, value |-> <<118, 49>>]}

\* Param k=it's, FileParam f from f.bin of type t/p
MultipartPool ==
    {[kind |-> "Param", name |-> <<107>>, value |-> ITS,
      filename |-> <<>>, content_type |-> <<>>],
     [kind |-> "FileParam", name |-> <<102>>, value |-> <<>>,
      filename |-> F_BIN, content_type |-> T_P]}

\* Text(""), Text("a'b"), Binary([1, 171]), File([], "f.bin"),
\* File(b"H", "f.bin")
Bodies ==
    {[kind |-> "Text", data |-> <<>>, filename |-> <<>>],
     [kind |-> "Text", data |-> <<97, 39, 98>>, filename |-> <<>>],
     [kind |-> "Binary", data |-> <<1, 171>>, filename |-> <<>>],
     [kind |-> "File", data |-> <<>>, filename |-> F_BIN],
     [kind |-> "File", data |-> <<72>>, filename |-> F_BIN]}

ImplicitContentTypes ==
    {[some |-> FALSE, value |-> <<>>],
     [some |-> TRUE, value |-> APPLICATION_JSON],
     [some |-> TRUE, value |-> FORM_URLENCODED],
     [some |-> TRUE, value |-> MULTIPART_FORM_DATA]}

\* ContextDir::default(), ContextDir::new("/tmp", "/tmp")
ContextDirs ==
    {<<>>, <<47, 116, 109, 112, 47>>}

\* how many header, query, form and multipart entries a request has
Shapes ==
    {s \in (0..MaxEntries) \X (0..MaxEntries) \X (0..MaxEntries)
            \X (0..MaxEntries) :
        s[1] + s[2] + s[3] + s[4] <= MaxEntries}

\* the header, query, form and multipart lists of a request
EntryLists ==
    UNION {[headers : [1..s[1] -> HeaderPool],
            querystring : [1..s[2] -> QueryPool],
            form : [1..s[3] -> FormPool],
            multipart : [1..s[4] -> MultipartPool]] : s \in Shapes}

Requests ==
    {[method |-> m, url |-> u, headers |-> l.headers,
      querystring |-> l.querystring, form |-> l.form,
      multipart |-> l.multipart, body |-> b, implicit_content_type |-> i] :
        m \in Methods, u \in Urls, l \in EntryLists, b \in Bodies,
        i \in ImplicitContentTypes}

Init ==
    /\ request \in Requests
    /\ context_dir \in ContextDirs
    /\ arguments = <<>>
    /\ input = <<>>
    /\ param_name = <<>>
    /\ encoded = <<>>
    /\ pc = "start"

CurlArgs ==
    /\ pc = "start"
    /\ arguments' = curl_args(request, context_dir)
    /\ pc' = "curl_args"
    /\ UNCHANGED <<request, context_dir, input, param_name, encoded>>

Next ==
    CurlArgs

Spec == Init /\ [][Next]_vars

(***************************************************************************)
(* The encoders applied to bounded strings.                                *)
(***************************************************************************)
\* the bytes the strings are drawn from: the characters the shell encoder
\* treats specially, and the bytes around the alphanumeric ranges
Alphabet ==
    {NL, TAB, SQ, BS, LOWER_N, 47, 48, 57, 58, 64, 65, 90, 91, 96, 97, 122,
     123, 195}

Strings ==
    SeqsUpTo(Alphabet, MaxStrLen)

\* "k", "a b"
ParamNames ==
    {<<107>>, <<97, 32, 98>>}

\* no request is translated in this specification
NoRequest ==
    [method |-> GET, url |-> <<>>, headers |-> <<>>, querystring |-> <<>>,
     form |-> <<>>, multipart |-> <<>>,
     body |-> [kind |-> "Text", data |-> <<>>, filename |-> <<>>],
     implicit_content_type |-> [some |-> FALSE, value |-> <<>>]]

InitStr ==
    /\ input \in Strings
    /\ param_name = <<>>
    /\ request = NoRequest
    /\ context_dir = <<>>
    /\ arguments = <<>>
    /\ encoded = <<>>
    /\ pc = "start"

EncodeShellString ==
    /\ pc = "start"
    /\ encoded' = encode_shell_string(input)
    /\ pc' = "encode_shell_string"
    /\ UNCHANGED <<request, context_dir, arguments, input, param_name>>

EscapeUrl ==
    /\ pc = "start"
    /\ encoded' = escape_url(input)
    /\ pc' = "escape_url"
    /\ UNCHANGED <<request, context_dir, arguments, input, param_name>>

ParamCurlArgEscape ==
    /\ pc = "start"
    /\ \E name \in ParamNames :
        /\ param_name' = name
        /\ encoded' = param_curl_arg_escape([name |-> name, value |-> input])
    /\ pc' = "curl_arg_escape"
    /\ UNCHANGED <<request, context_dir, arguments, input>>

NextStr ==
    \/ EncodeShellString
    \/ EscapeUrl
    \/ ParamCurlArgEscape

SpecStr == InitStr /\ [][NextStr]_vars

(***************************************************************************)
(* Vocabulary of the properties: what can be read off the tokens.          *)
(***************************************************************************)
\* "0123456789ABCDEF"
UpperHexDigits ==
    <<48, 49, 50, 51, 52, 53, 54, 55, 56, 57, 65, 66, 67, 68, 69, 70>>

\* "0123456789abcdef"
LowerHexDigits ==
    <<48, 49, 50, 51, 52, 53, 54, 55, 56, 57, 97, 98, 99, 100, 101, 102>>

\* [A-Za-z0-9]
AlnumChars ==
    (48..57) \cup (65..90) \cup (97..122)

\* a byte as the percent encoding renders it
PercentForm(b) ==
    IF b \in AlnumChars
    THEN <<b>>
    ELSE <<PERCENT, UpperHexDigits[(b \div 16) + 1], UpperHexDigits[(b % 16) + 1]>>

\* name=<percent-encoded value>
EscapedParam(param) ==
    param.name \o <<EQ>> \o FlatMap(PercentForm, param.value)

\* a character as the escape table of the $'...' form renders it
EscapeTable(c) ==
    IF c = NL THEN <<BS, LOWER_N>>
    ELSE IF c = TAB THEN <<BS, LOWER_T>>
    ELSE IF c = SQ THEN <<BS, SQ>>
    ELSE IF c = BS THEN <<BS, BS>>
    ELSE <<c>>

\* the escape table reversed: what a shell reads between $' and '
\* (-1 stands for an escape the table does not have)
RECURSIVE Unescape(_)
Unescape(t) ==
    IF t = <<>> THEN <<>>
    ELSE IF Head(t) /= BS THEN <<Head(t)>> \o Unescape(Tail(t))
    ELSE IF Len(t) < 2 THEN <<-1>>
    ELSE LET c == t[2]
             d == IF c = LOWER_N THEN NL
                  ELSE IF c = LOWER_T THEN TAB
                  ELSE IF c = SQ THEN SQ
                  ELSE IF c = BS THEN BS
                  ELSE -1
         IN  <<d>> \o Unescape(SubSeq(t, 3, Len(t)))

\* no single quote ends the $'...' word early
RECURSIVE NoUnescapedQuote(_)
NoUnescapedQuote(t) ==
    IF t = <<>> THEN TRUE
    ELSE IF Head(t) = SQ THEN FALSE
    ELSE IF Head(t) = BS
    THEN Len(t) >= 2 /\ NoUnescapedQuote(SubSeq(t, 3, Len(t)))
    ELSE NoUnescapedQuote(Tail(t))

\* a token in quoted form is one shell word
WellQuoted(t) ==
    IF Len(t) >= 1 /\ t[1] = SQ
    THEN /\ Len(t) >= 2
         /\ t[Len(t)] = SQ
         /\ \A i \in 2..(Len(t) - 1) : t[i] /= SQ
    ELSE IF Len(t) >= 2 /\ t[1] = DOLLAR /\ t[2] = SQ
    THEN /\ Len(t) >= 3
         /\ t[Len(t)] = SQ
         /\ NoUnescapedQuote(SubSeq(t, 3, Len(t) - 1))
    ELSE TRUE

\* how many tokens of args are tok
CountToken(args, tok) ==
    Cardinality({i \in 1..Len(args) : args[i] = tok})

\* two header names equal up to the case of their ASCII letters
SameNameIgnoringCase(a, b) ==
    /\ Len(a) = Len(b)
    /\ \A i \in 1..Len(a) :
        \/ a[i] = b[i]
        \/ a[i] \in 65..90 /\ b[i] = a[i] + 32
        \/ a[i] \in 97..122 /\ b[i] = a[i] - 32

\* a header named exactly "Content-Type"
HasExactContentType ==
    \E i \in 1..Len(request.headers) : request.headers[i].name = CONTENT_TYPE

\* a header named "Content-Type" in any letter case
HasContentTypeAnyCase ==
    \E i \in 1..Len(request.headers) :
        SameNameIgnoringCase(request.headers[i].name, CONTENT_TYPE)

\* the body has more than zero bytes
BodyNonEmpty ==
    Len(request.body.data) > 0

HasPayload ==
    Len(request.multipart) > 0 \/ Len(request.form) > 0 \/ BodyNonEmpty

\* the method table
MethodTable(verb, payload) ==
    IF verb = GET THEN (IF payload THEN <<ARG_REQUEST, GET>> ELSE <<>>)
    ELSE IF verb = POST THEN (IF payload THEN <<>> ELSE <<ARG_REQUEST, POST>>)
    ELSE IF verb = HEAD THEN <<ARG_HEAD>>
    ELSE <<ARG_REQUEST, verb>>

\* the inferred Content-Type pair when no explicit header stands in its way
InferredPair ==
    IF request.implicit_content_type.some
    THEN LET T == request.implicit_content_type.value
         IN  IF T /= FORM_URLENCODED /\ T /= MULTIPART_FORM_DATA
             THEN <<ARG_HEADER,
                    <<SQ>> \o CONTENT_TYPE \o <<COLON, SPACE>> \o T \o <<SQ>> >>
             ELSE <<>>
    ELSE IF BodyNonEmpty
    THEN IF request.body.kind = "Binary"
         THEN <<ARG_HEADER,
                <<SQ>> \o CONTENT_TYPE \o <<COLON, SPACE>> \o OCTET_STREAM
                    \o <<SQ>> >>
         ELSE <<ARG_HEADER, <<SQ>> \o CONTENT_TYPE \o <<COLON, SQ>> >>
    ELSE <<>>

Done ==
    pc = "curl_args"

\* where the explicit header pairs end in the output
AfterHeaders ==
    Len(MethodTable(request.method, HasPayload)) + 2 * Len(request.headers)

(***************************************************************************)
(* Properties of Method::curl_args within curl_args.                       *)
(***************************************************************************)
\* C1: the output of curl_args opens with exactly the tokens the method
\* table gives for the verb and has_payload (multipart or form non-empty, or
\* a body of more than zero bytes): GET+payload -> --request GET, GET alone
\* -> nothing, POST+payload -> nothing, POST alone -> --request POST, HEAD ->
\* --head, any other verb V -> --request V; the token after them is no
\* method token.
C1_MethodTokens ==
    Done =>
        LET expected == MethodTable(request.method, HasPayload)
            n == Len(expected)
        IN  /\ Len(arguments) > n
            /\ SubSeq(arguments, 1, n) = expected
            /\ arguments[n + 1] \notin {ARG_REQUEST, ARG_HEAD}

C1_Witness ==
    /\ Done
    /\ request.method = GET
    /\ request.form /= <<>>
    /\ request.body.data = <<>>
    /\ SubSeq(arguments, 1, 2) = <<ARG_REQUEST, GET>>

(***************************************************************************)
(* Properties of encode_shell_string.                                      *)
(***************************************************************************)
\* C2: encode_shell_string(s) is 's' verbatim when s has no newline, tab or
\* single quote; otherwise it is $'...' whose interior is s with newline,
\* tab, single quote and backslash replaced by their two-character escapes,
\* every other character unchanged and in order, and reversing the escape
\* table on the interior gives back s.
C2_ShellRoundTrip ==
    pc = "encode_shell_string" =>
        IF \A i \in 1..Len(input) : input[i] \notin {NL, TAB, SQ}
        THEN encoded = <<SQ>> \o input \o <<SQ>>
        ELSE /\ Len(encoded) >= 3
             /\ encoded[1] = DOLLAR
             /\ encoded[2] = SQ
             /\ encoded[Len(encoded)] = SQ
             /\ LET interior == SubSeq(encoded, 3, Len(encoded) - 1)
                IN  /\ interior = FlatMap(EscapeTable, input)
                    /\ Unescape(interior) = input

C2_Witness ==
    /\ pc = "encode_shell_string"
    /\ input = <<BS, LOWER_N, SQ>>
    /\ encoded = <<DOLLAR, SQ, BS, BS, LOWER_N, BS, SQ, SQ>>

(***************************************************************************)
(* Properties of the URL token.                                            *)
(***************************************************************************)
\* C3: the last token of curl_args is the URL between single quotes: the
\* raw URL when there is no query parameter; otherwise the raw URL, then '&'
\* if the raw URL contains '?' and '?' if not, then the parameters as
\* name=<percent-encoded value> in insertion order joined by '&'.
C3_UrlToken ==
    Done =>
        LET q == request.querystring
            params == [i \in 1..Len(q) |->
                          (IF i = 1 THEN <<>> ELSE <<AMP>>) \o EscapedParam(q[i])]
            joined == FlatMap(LAMBDA x : x, params)
            sep == IF \E i \in 1..Len(request.url) : request.url[i] = QMARK
                   THEN <<AMP>>
                   ELSE <<QMARK>>
            url == IF Len(q) = 0
                   THEN request.url
                   ELSE request.url \o sep \o joined
        IN  /\ Len(arguments) >= 1
            /\ arguments[Len(arguments)] = <<SQ>> \o url \o <<SQ>>

C3_Witness ==
    /\ Done
    /\ Len(request.querystring) = 2
    /\ request.querystring[1] /= request.querystring[2]
    /\ \E i \in 1..Len(request.url) : request.url[i] = QMARK
    /\ Len(arguments[Len(arguments)])
         > Len(request.url) + 2

(***************************************************************************)
(* Properties of the Content-Type inference.                               *)
(***************************************************************************)
\* C4 as stated: the presence check is case-sensitive, so a request with no
\* header named exactly "Content-Type" gets the inferred pair even when it
\* has a "content-type" header.
C4_CaseSensitivePresence ==
    (Done /\ ~HasExactContentType /\ InferredPair /= <<>>) =>
        /\ CountToken(arguments, ARG_HEADER) = Len(request.headers) + 1
        /\ SubSeq(arguments, AfterHeaders + 1, AfterHeaders + 2) = InferredPair

\* C4 as amended: the presence check ignores the letter case of the header
\* name: the inferred pair is emitted exactly when no header is named
\* Content-Type in any letter case and the inference rule gives a pair; a
\* request with a "content-type" header gets no inferred pair.
C4_CaseInsensitivePresence ==
    Done =>
        IF ~HasContentTypeAnyCase /\ InferredPair /= <<>>
        THEN /\ CountToken(arguments, ARG_HEADER) = Len(request.headers) + 1
             /\ SubSeq(arguments, AfterHeaders + 1, AfterHeaders + 2)
                  = InferredPair
        ELSE CountToken(arguments, ARG_HEADER) = Len(request.headers)

C4_Witness ==
    /\ Done
    /\ Len(request.headers) = 1
    /\ request.headers[1].name = LOWER_CONTENT_TYPE
    /\ request.implicit_content_type.some
    /\ request.implicit_content_type.value = APPLICATION_JSON
    /\ CountToken(arguments, ARG_HEADER) = 1

\* C6: with no explicit Content-Type header, at most one inferred pair is
\* emitted, right after the explicit header pairs: 'Content-Type: T' for an
\* implicit content type T that is neither form type, nothing for a form
\* type (whatever the body); with no implicit content type, 'Content-Type:'
\* for a non-empty Text or File body, 'Content-Type:
\* application/octet-stream' for a non-empty Binary body, nothing for an
\* empty body.
C6_InferredPair ==
    (Done /\ ~HasContentTypeAnyCase) =>
        LET some == request.implicit_content_type.some
            T == request.implicit_content_type.value
            kind == request.body.kind
            bare == <<SQ>> \o CONTENT_TYPE \o <<COLON, SQ>>
            typed(v) == <<SQ>> \o CONTENT_TYPE \o <<COLON, SPACE>> \o v \o <<SQ>>
            value == IF some /\ T \notin {FORM_URLENCODED, MULTIPART_FORM_DATA}
                        THEN <<typed(T)>>
                     ELSE IF some THEN <<>>
                     ELSE IF BodyNonEmpty /\ kind \in {"Text", "File"}
                        THEN <<bare>>
                     ELSE IF BodyNonEmpty /\ kind = "Binary"
                        THEN <<typed(OCTET_STREAM)>>
                     ELSE <<>>
        IN  /\ CountToken(arguments, ARG_HEADER)
                 = Len(request.headers) + Len(value)
            /\ value /= <<>> =>
                 /\ arguments[AfterHeaders + 1] = ARG_HEADER
                 /\ arguments[AfterHeaders + 2] = value[1]

C6_Witness ==
    /\ Done
    /\ Len(request.headers) = 1
    /\ ~HasContentTypeAnyCase
    /\ ~request.implicit_content_type.some
    /\ request.body.kind = "Binary"
    /\ arguments[AfterHeaders + 2]
         = <<SQ>> \o CONTENT_TYPE \o <<COLON, SPACE>> \o OCTET_STREAM \o <<SQ>>

(***************************************************************************)
(* Properties of the whole output.                                         *)
(***************************************************************************)
\* C5 as stated: no headers, no body and no query parameters give exactly
\* one token, the quoted URL, for every method and every form and multipart
\* list.
C5_OneTokenAlways ==
    (Done /\ request.headers = <<>> /\ ~BodyNonEmpty
          /\ request.querystring = <<>>) =>
        arguments = << <<SQ>> \o request.url \o <<SQ>> >>

\* C5 as amended: a request with no headers, no body and no query
\* parameters gives exactly one token, the quoted URL, exactly when its
\* method is GET, its form and multipart lists are empty and its implicit
\* content type is unset or one of the two form types; in every case its
\* last token is the quoted URL.
C5_OneTokenForBareGet ==
    (Done /\ request.headers = <<>> /\ ~BodyNonEmpty
          /\ request.querystring = <<>>) =>
        LET quoted == <<SQ>> \o request.url \o <<SQ>>
            ict == request.implicit_content_type
        IN  /\ arguments[Len(arguments)] = quoted
            /\ (arguments = <<quoted>>) <=>
                 /\ request.method = GET
                 /\ request.form = <<>>
                 /\ request.multipart = <<>>
                 /\ (~ict.some
                       \/ ict.value \in {FORM_URLENCODED, MULTIPART_FORM_DATA})

C5_Witness ==
    /\ Done
    /\ request.method = GET
    /\ request.headers = <<>>
    /\ request.querystring = <<>>
    /\ request.form = <<>>
    /\ request.multipart = <<>>
    /\ request.body.kind = "File"
    /\ request.body.data = <<>>
    /\ request.implicit_content_type.some
    /\ Len(arguments) = 1

(***************************************************************************)
(* Properties of the body pair.                                            *)
(***************************************************************************)
\* a string as the shell encoder renders it
ShellForm(s) ==
    IF \A i \in 1..Len(s) : s[i] \notin {NL, TAB, SQ}
    THEN <<SQ>> \o s \o <<SQ>>
    ELSE <<DOLLAR, SQ>> \o FlatMap(EscapeTable, s) \o <<SQ>>

\* a byte as \x and two lowercase hex digits
HexForm(b) ==
    <<BS, LOWER_X, LowerHexDigits[(b \div 16) + 1], LowerHexDigits[(b % 16) + 1]>>

\* the value of the body pair
BodyValue ==
    IF request.body.kind = "Text" THEN ShellForm(request.body.data)
    ELSE IF request.body.kind = "Binary"
    THEN <<DOLLAR, SQ>> \o FlatMap(HexForm, request.body.data) \o <<SQ>>
    ELSE <<SQ, AT>> \o resolved_path(context_dir, request.body.filename)
            \o <<SQ>>

\* the number of inferred Content-Type pairs in the output
InferredCount ==
    CountToken(arguments, ARG_HEADER) - Len(request.headers)

\* a body pair is emitted exactly when the body has more than zero bytes,
\* and then exactly one, before the URL: --data-binary for File, --data for
\* Text and Binary, followed by the rendered body
BodyPairRule ==
    LET n == Len(arguments)
        before == AfterHeaders + 2 * InferredCount
                    + 2 * Len(request.form) + 2 * Len(request.multipart)
        flag == IF request.body.kind = "File" THEN ARG_DATA_BINARY ELSE ARG_DATA
    IN  IF BodyNonEmpty
        THEN /\ n = before + 3
             /\ arguments[n - 2] = flag
             /\ arguments[n - 1] = BodyValue
             /\ CountToken(arguments, ARG_DATA_BINARY)
                  = (IF request.body.kind = "File" THEN 1 ELSE 0)
             /\ CountToken(arguments, ARG_DATA)
                  = Len(request.form)
                      + (IF request.body.kind = "File" THEN 0 ELSE 1)
        ELSE /\ n = before + 1
             /\ CountToken(arguments, ARG_DATA_BINARY) = 0
             /\ CountToken(arguments, ARG_DATA) = Len(request.form)

EmptyFileBody ==
    request.body.kind = "File" /\ ~BodyNonEmpty

\* C7 as stated: the body pair rule, and a File body with no bytes emits no
\* body pair and no inferred Content-Type pair.
C7_BodyPairAndEmptyFile ==
    Done =>
        /\ BodyPairRule
        /\ EmptyFileBody =>
             /\ CountToken(arguments, ARG_DATA_BINARY) = 0
             /\ InferredCount = 0

\* C7 as amended: the body pair rule, and a File body with no bytes emits no
\* body pair and no body-derived Content-Type pair: the only inferred pair
\* it can get is 'Content-Type: T' for an implicit content type T that is
\* neither form type, when no Content-Type header is present.
C7_BodyPairAndEmptyFileImplicit ==
    Done =>
        /\ BodyPairRule
        /\ EmptyFileBody =>
             LET ict == request.implicit_content_type
                 typed == /\ ict.some
                          /\ ict.value \notin {FORM_URLENCODED, MULTIPART_FORM_DATA}
                          /\ ~HasContentTypeAnyCase
             IN  /\ CountToken(arguments, ARG_DATA_BINARY) = 0
                 /\ InferredCount = (IF typed THEN 1 ELSE 0)
                 /\ typed =>
                      arguments[AfterHeaders + 2]
                        = <<SQ>> \o CONTENT_TYPE \o <<COLON, SPACE>>
                            \o ict.value \o <<SQ>>

C7_Witness ==
    /\ Done
    /\ EmptyFileBody
    /\ request.implicit_content_type.some
    /\ request.implicit_content_type.value = APPLICATION_JSON
    /\ request.headers = <<>>
    /\ InferredCount = 1
    /\ CountToken(arguments, ARG_DATA_BINARY) = 0

(***************************************************************************)
(* Properties of escape_url and Param::curl_arg_escape.                    *)
(***************************************************************************)
\* C8: escape_url(v) keeps every ASCII alphanumeric byte, replaces every
\* other byte by '%' and its two uppercase hex digits, so its output has
\* only characters of [A-Za-z0-9%]; Param::curl_arg_escape emits the name
\* verbatim, '=' and the encoded value.
C8_EscapeUrl ==
    /\ pc = "escape_url" =>
         /\ encoded = FlatMap(PercentForm, input)
         /\ \A i \in 1..Len(encoded) : encoded[i] \in AlnumChars \cup {PERCENT}
         /\ (\A i \in 1..Len(input) : input[i] \in AlnumChars) => encoded = input
    /\ pc = "curl_arg_escape" =>
         encoded = param_name \o <<EQ>> \o FlatMap(PercentForm, input)

C8_Witness ==
    /\ pc = "curl_arg_escape"
    /\ param_name = <<97, 32, 98>>
    /\ input = <<97, 47, 195>>
    /\ encoded = <<97, 32, 98, EQ, 97, PERCENT, 50, 70, PERCENT, 67, 51>>

(***************************************************************************)
(* Order of the token groups.                                              *)
(***************************************************************************)
\* C9: the output is, in this order, the method tokens, one --header pair
\* per header in insertion order, the inferred Content-Type pair, one --data
\* pair per form parameter in insertion order, one --form pair per multipart
\* parameter in insertion order, the body pair, and the quoted URL; so it
\* has |method tokens| + 2 * (headers + inferred + form + multipart + body
\* pair) + 1 tokens.
C9_GroupOrder ==
    Done =>
        LET m == Len(MethodTable(request.method, HasPayload))
            H == Len(request.headers)
            I == InferredCount
            F == Len(request.form)
            M == Len(request.multipart)
            B == IF BodyNonEmpty THEN 1 ELSE 0
            h0 == m
            i0 == h0 + 2 * H
            f0 == i0 + 2 * I
            m0 == f0 + 2 * F
            b0 == m0 + 2 * M
        IN  /\ I \in {0, 1}
            /\ Len(arguments) = m + 2 * (H + I + F + M + B) + 1
            /\ \A k \in 1..H :
                 /\ arguments[h0 + 2 * k - 1] = ARG_HEADER
                 /\ arguments[h0 + 2 * k]
                      = ShellForm(request.headers[k].name \o <<COLON, SPACE>>
                                    \o request.headers[k].value)
            /\ I = 1 =>
                 /\ arguments[i0 + 1] = ARG_HEADER
                 /\ arguments[i0 + 2] = InferredPair[2]
            /\ \A k \in 1..F :
                 /\ arguments[f0 + 2 * k - 1] = ARG_DATA
                 /\ arguments[f0 + 2 * k]
                      = <<SQ>> \o EscapedParam(request.form[k]) \o <<SQ>>
            /\ \A k \in 1..M :
                 /\ arguments[m0 + 2 * k - 1] = ARG_FORM
                 /\ arguments[m0 + 2 * k]
                      = <<SQ>> \o multipart_curl_arg(request.multipart[k],
                                                     context_dir) \o <<SQ>>
            /\ B = 1 =>
                 /\ arguments[b0 + 1] \in {ARG_DATA, ARG_DATA_BINARY}
                 /\ arguments[b0 + 2] = BodyValue
            /\ arguments[Len(arguments)][1] = SQ
            /\ SubSeq(arguments[Len(arguments)], 2, Len(request.url) + 1)
                 = request.url

C9_Witness ==
    /\ Done
    /\ Len(request.headers) = 1
    /\ Len(request.form) = 1
    /\ Len(request.multipart) = 1
    /\ BodyNonEmpty
    /\ InferredCount = 1
    /\ Len(arguments) = Len(MethodTable(request.method, HasPayload)) + 11

\* the same with two entries in one group and a duplicate header
C9_WitnessDuplicates ==
    /\ Done
    /\ Len(request.headers) = 2
    /\ request.headers[1] = request.headers[2]
    /\ arguments[Len(arguments) - 1] = arguments[Len(arguments) - 3]

(***************************************************************************)
(* Quoting of the tokens.                                                  *)
(***************************************************************************)
\* C10: every token curl_args emits in quoted form ('...' or $'...') is one
\* well-formed shell word: no single quote inside '...', no unescaped single
\* quote inside $'...'.
C10_TokensWellQuoted ==
    Done => \A i \in 1..Len(arguments) : WellQuoted(arguments[i])

=============================================================================
